---- MODULE Spec2Model ----
(***************************************************************************)
(* Model of bytes-rs: ExpandVec, BufferVec, the IOError classification,    *)
(* WriteBuffer (src/src/buffer.rs) and RingVec (src/src/ring_vec.rs).      *)
(*                                                                         *)
(* Bytes are modelled as naturals.  0 is the fill byte of a fresh          *)
(* BufferVec; the bytes a caller submits are numbered 1, 2, 3, ... in      *)
(* submission order, so that a lost, duplicated or reordered byte shows.   *)
(***************************************************************************)
EXTENDS Integers, Sequences, FiniteSets, TLC

\* ------------------------------------------------------------------ bounds
MaxCap     == 2   \* WriteBuffer::new(cap) with cap in 0..MaxCap
MaxData    == 2   \* length of the data of one write / must_write call
MaxCalls   == 2   \* number of calls on one WriteBuffer, any transport
MaxCycles  == 4   \* number of calls, transport that only blocks or only accepts
MaxRoom    == 3   \* bytes the transport has room for during one call
MaxChunk   == 1   \* bytes the transport takes in one successful write
MaxStepCalls == 2 \* calls per behaviour, statement by statement
MaxRing    == 3   \* RingVec::new(n) with n in 1..MaxRing
MaxPush    == 6   \* number of items pushed to one RingVec
MaxIdx     == 4   \* get(idx) with idx in 0..MaxIdx
MaxSlice   == 2   \* length of one slice pushed to an ExpandVec
MaxItems   == 4   \* number of elements pushed to one ExpandVec
MaxChunks  == 3   \* number of chunks an ExpandVec holds at once
MaxBufCap  == 2   \* capacity arguments of BufferVec calls are in 0..MaxBufCap
MaxRead    == 2   \* bytes a reader has, and bytes it gives in one read

\* --------------------------------------------------------------- constants
UsizeBits  == 64  \* width of usize

\* ---------------------------------------------------------------- helpers
Min(a, b) == IF a < b THEN a ELSE b

Max(a, b) == IF a < b THEN b ELSE a

Take(s, n) == SubSeq(s, 1, n)

Drop(s, n) == SubSeq(s, n + 1, Len(s))

\* -------------------------------------------------------------- ExpandVec
\* struct ExpandVec { raw: Vec<Vec<T>>, size: usize }
ExpandVec_new == [raw |-> <<>>, size |-> 0]

ExpandVec_len(self) == self.size

\* pop returns the last chunk (ok: Some) or None
ExpandVec_pop(self) ==
    IF self.raw = <<>>
    THEN [self |-> self, ok |-> FALSE, ret |-> <<>>]
    ELSE [self |-> [self EXCEPT !.raw = SubSeq(@, 1, Len(@) - 1)],
          ok |-> TRUE, ret |-> self.raw[Len(self.raw)]]

ExpandVec_push(self, data) ==
    [raw |-> Append(self.raw, data), size |-> self.size + Len(data)]

\* move_to: `for d in &new { data.extend_from_slice(d.as_slice()) }`
RECURSIVE extend_all(_, _)
extend_all(data, new) ==
    IF new = <<>> THEN data ELSE extend_all(data \o Head(new), Tail(new))

\* (variant: size is not reset)
ExpandVec_move_to_keep_size(self, data) ==
    [self |-> [raw |-> <<>>, size |-> self.size], data |-> extend_all(data, self.raw)]

\* move_to(data): the chunks are taken out of self.raw and appended to data
\* (reserve_exact only allocates)
ExpandVec_move_to(self, data) ==
    [self |-> [raw |-> <<>>, size |-> 0], data |-> extend_all(data, self.raw)]

\* -------------------------------------------------------------- BufferVec
\* struct BufferVec { raw: Vec<u8>, size: usize }
BufferVec_new(size) == [raw |-> [i \in 1..size |-> 0], size |-> 0]

BufferVec_len(b) == b.size

BufferVec_cap(b) == Len(b.raw)

\* the filled prefix &raw[..size]
BufferVec_read(b) == SubSeq(b.raw, 1, b.size)

\* the unfilled suffix &mut raw[size..]
BufferVec_write(b) == SubSeq(b.raw, b.size + 1, Len(b.raw))

BufferVec_advance(b, n) == [b EXCEPT !.size = @ + n]

\* (variant: size is reduced but the region is not rotated)
BufferVec_rotate_left_no_shift(b, n) == [raw |-> b.raw, size |-> b.size - n]

\* (variant: the region is rotated but size is not reduced)
BufferVec_rotate_left_keep_size(b, n) ==
    [raw  |-> SubSeq(b.raw, n + 1, Len(b.raw)) \o SubSeq(b.raw, 1, n),
     size |-> b.size]

\* Vec::rotate_left rotates the whole region, then size -= n
BufferVec_rotate_left(b, n) ==
    [raw  |-> SubSeq(b.raw, n + 1, Len(b.raw)) \o SubSeq(b.raw, 1, n),
     size |-> b.size - n]

BufferVec_clear(b) == [b EXCEPT !.size = 0]

\* (variant: the length of the input is returned, not the count copied)
BufferVec_copy_from_len(b, data) ==
    LET room == Len(BufferVec_write(b))
        src  == IF room < Len(data) THEN Take(data, room) ELSE data
        raw2 == [i \in 1..Len(b.raw) |->
                    IF i > b.size /\ i <= b.size + Len(src)
                    THEN src[i - b.size] ELSE b.raw[i]]
    IN  [buf |-> BufferVec_advance([b EXCEPT !.raw = raw2], Len(src)),
         n   |-> Len(data)]

\* returns the buffer after the copy and the number of bytes copied
BufferVec_copy_from(b, data) ==
    LET room == Len(BufferVec_write(b))
        src  == IF room < Len(data) THEN Take(data, room) ELSE data
        raw2 == [i \in 1..Len(b.raw) |->
                    IF i > b.size /\ i <= b.size + Len(src)
                    THEN src[i - b.size] ELSE b.raw[i]]
    IN  [buf |-> BufferVec_advance([b EXCEPT !.raw = raw2], Len(src)),
         n   |-> Len(src)]

BufferVec_from_slice(slice, c) == BufferVec_copy_from(BufferVec_new(c), slice).buf

\* Vec::resize(n, 0): truncated, or filled up with 0
Vec_resize(v, n) == [i \in 1..n |-> IF i <= Len(v) THEN v[i] ELSE 0]

BufferVec_from_vec(vec, c) ==
    [raw |-> Vec_resize(vec, IF c < Len(vec) THEN Len(vec) ELSE c), size |-> Len(vec)]

\* (variant: size is not clamped to the new capacity)
BufferVec_resize_cap_no_clamp(b, n) == [raw |-> Vec_resize(b.raw, n), size |-> b.size]

BufferVec_resize_cap(b, n) ==
    [raw  |-> Vec_resize(b.raw, n),
     size |-> IF b.size > n THEN n ELSE b.size]

BufferVec_is_full(b) == Len(BufferVec_write(b)) = 0

\* move_to(target): target.copy_from(self.read()); self.clear()
BufferVec_move_to(b, target) ==
    [self |-> BufferVec_clear(b), target |-> BufferVec_copy_from(target, BufferVec_read(b)).buf]

\* A reader R: Read holds the bytes data, gives at most chunk of them in one
\* read, and at their end reports end of input (Ok(0)) or fails with err.
Reader(data, chunk, err) == [data |-> data, chunk |-> chunk, err |-> err]

\* reader.read(buf) for a buf of room bytes
Reader_read(r, room) ==
    IF r.data = <<>> /\ r.err # "None"
    THEN [r |-> r, ok |-> FALSE, bytes |-> <<>>, kind |-> r.err]
    ELSE [r     |-> [r EXCEPT !.data = Drop(@, Min(Min(r.chunk, Len(r.data)), room))],
          ok    |-> TRUE,
          bytes |-> Take(r.data, Min(Min(r.chunk, Len(r.data)), room)),
          kind  |-> "None"]

\* the bytes a read has put at the start of the unfilled region, committed
\* with advance
BufferVec_filled(b, bytes) ==
    BufferVec_advance(
        [b EXCEPT !.raw = [i \in 1..Len(b.raw) |->
                              IF i > b.size /\ i <= b.size + Len(bytes)
                              THEN bytes[i - b.size] ELSE b.raw[i]]],
        Len(bytes))

\* fill_with, on the result x of reader.read(self.write())
BufferVec_fill_with_read(b, x) ==
    IF ~x.ok THEN [buf |-> b, ok |-> FALSE, n |-> 0, kind |-> x.kind]
    ELSE IF Len(x.bytes) = 0
         THEN [buf |-> b, ok |-> FALSE, n |-> 0, kind |-> "UnexpectedEof"]
         ELSE [buf |-> BufferVec_filled(b, x.bytes), ok |-> TRUE, n |-> Len(x.bytes),
               kind |-> "None"]

BufferVec_fill_with(b, r) == BufferVec_fill_with_read(b, Reader_read(r, Len(BufferVec_write(b))))

\* fill_all_with: `while !self.is_full() { match reader.read(self.write()) .. }`
RECURSIVE BufferVec_fill_all_with(_, _)
RECURSIVE BufferVec_fill_all_with_read(_, _)
BufferVec_fill_all_with(b, r) ==
    IF BufferVec_is_full(b)
    THEN [buf |-> b, ok |-> TRUE, n |-> 0, kind |-> "None"]
    ELSE BufferVec_fill_all_with_read(b, Reader_read(r, Len(BufferVec_write(b))))

\* the match on the result x of the read
BufferVec_fill_all_with_read(b, x) ==
    IF ~x.ok THEN [buf |-> b, ok |-> FALSE, n |-> 0, kind |-> x.kind]
    ELSE IF Len(x.bytes) = 0
         THEN [buf |-> b, ok |-> FALSE, n |-> 0, kind |-> "UnexpectedEof"]
         ELSE BufferVec_fill_all_with(BufferVec_filled(b, x.bytes), x.r)

\* ---------------------------------------------------------------- IOError
\* std::io::ErrorKind values a transport write may fail with;
\* PermissionDenied stands for the kinds the code does not name.
ErrorKinds == {"WouldBlock", "NotConnected", "UnexpectedEof", "BrokenPipe",
               "ConnectionAborted", "PermissionDenied"}

\* enum IOError { WouldBlock, EOF { temporary }, Other(Error) }
IOError_WouldBlock == [tag |-> "WouldBlock", temporary |-> FALSE, kind |-> "None"]

IOError_EOF(t) == [tag |-> "EOF", temporary |-> t, kind |-> "None"]

IOError_Other(k) == [tag |-> "Other", temporary |-> FALSE, kind |-> k]

\* the value of a Result that carries no IOError
NoError == [tag |-> "None", temporary |-> FALSE, kind |-> "None"]

\* (variant: BrokenPipe is missing from the end-of-stream kinds)
IOError_from_no_pipe(kind) ==
    IF kind = "WouldBlock" THEN IOError_WouldBlock
    ELSE IF kind \in {"UnexpectedEof", "ConnectionAborted"}
         THEN IOError_EOF(FALSE)
         ELSE IOError_Other(kind)

\* impl From<Error> for IOError
IOError_from(kind) ==
    IF kind = "WouldBlock" THEN IOError_WouldBlock
    ELSE IF kind \in {"UnexpectedEof", "BrokenPipe", "ConnectionAborted"}
         THEN IOError_EOF(FALSE)
         ELSE IOError_Other(kind)

\* Result<usize, IOError> and Result<(), IOError>
Ok(n) == [ok |-> TRUE, val |-> n, err |-> NoError]

Err(e) == [ok |-> FALSE, val |-> 0, err |-> e]

\* -------------------------------------------------------------- transport
\* The writer W: Write is the caller's transport.  During one call it has
\* room for `room` more bytes, takes at most `chunk` of the bytes offered in
\* one write, and fails with the error kind `err` when a write finds no room.
\* out: the bytes it has received; raised: the error kind it has failed with
\* during the call.  (A successful write of zero bytes is the subject of the
\* statement-level specification StepFairSpec below.)
Transport(room, chunk, err, out) ==
    [room |-> room, chunk |-> chunk, err |-> err, out |-> out, raised |-> "None"]

\* w.write(&buf)
Transport_write(w, b) ==
    IF w.room > 0
    THEN LET n == Min(Min(w.chunk, w.room), Len(b))
         IN  [w    |-> [w EXCEPT !.room = @ - n, !.out = @ \o Take(b, n)],
              ok   |-> TRUE, n |-> n, kind |-> "None"]
    ELSE [w    |-> [w EXCEPT !.raised = w.err],
          ok   |-> FALSE, n |-> 0, kind |-> w.err]

\* ------------------------------------------------------------ WriteBuffer
\* struct WriteBuffer { cap, buf: Vec<BufferVec>, idle_instant }
WriteBuffer_new(c, now) ==
    [cap |-> c, buf |-> <<BufferVec_new(c)>>, idle_instant |-> now]

RECURSIVE SumSizes(_)
SumSizes(segs) == IF segs = <<>> THEN 0 ELSE Head(segs).size + SumSizes(Tail(segs))

buffered(self) == SumSizes(self.buf)

\* the while loop of raw_write; exit is "done" (loop condition false),
\* "break" or "return" (with err)
RECURSIVE raw_write_loop(_, _, _)
raw_write_loop(w, b, written) ==
    IF b = <<>>
    THEN [w |-> w, exit |-> "done", written |-> written, err |-> NoError]
    ELSE LET r == Transport_write(w, b)
         IN  IF r.ok
             THEN raw_write_loop(r.w, Drop(b, r.n), written + r.n)
             ELSE IF r.kind \in {"WouldBlock", "NotConnected"}
                  THEN IF written > 0
                       THEN [w |-> r.w, exit |-> "break", written |-> written,
                             err |-> NoError]
                       ELSE [w |-> r.w, exit |-> "return", written |-> written,
                             err |-> IOError_WouldBlock]
                  ELSE [w |-> r.w, exit |-> "return", written |-> written,
                        err |-> IOError_from(r.kind)]

\* (variant: a would-block after a partial write loses the partial count)
raw_write_strict(w, b, s, now) ==
    LET l == raw_write_loop(w, b, 0)
    IN  IF l.exit = "return"
        THEN [w |-> l.w, res |-> Err(l.err), s |-> s]
        ELSE IF l.exit = "break"
             THEN [w |-> l.w, res |-> Err(IOError_WouldBlock), s |-> now]
             ELSE [w |-> l.w, res |-> Ok(l.written), s |-> now]

\* (variant: one transport write only, no loop over short writes)
raw_write_once(w, b, s, now) ==
    IF b = <<>> THEN [w |-> w, res |-> Ok(0), s |-> now]
    ELSE LET r == Transport_write(w, b)
         IN  IF r.ok THEN [w |-> r.w, res |-> Ok(r.n), s |-> now]
             ELSE IF r.kind \in {"WouldBlock", "NotConnected"}
                  THEN [w |-> r.w, res |-> Err(IOError_WouldBlock), s |-> s]
                  ELSE [w |-> r.w, res |-> Err(IOError_from(r.kind)), s |-> s]

\* raw_write(w, buf, s): s is the idle timestamp, now the value of Instant::now()
raw_write(w, b, s, now) ==
    LET l == raw_write_loop(w, b, 0)
    IN  IF l.exit = "return"
        THEN [w |-> l.w, res |-> Err(l.err), s |-> s]
        ELSE [w |-> l.w, res |-> Ok(l.written), s |-> now]

\* one iteration of the for loop of flush_buffer: the match on the result r
\* of raw_write for segment i; go says whether the loop continues
flush_segment(self, i, r) ==
    IF r.res.ok /\ r.res.val = Len(BufferVec_read(self.buf[i]))
    THEN [self |-> [self EXCEPT !.buf[i] = BufferVec_rotate_left(@, r.res.val),
                                !.idle_instant = r.s],
          w |-> r.w, res |-> Ok(0), go |-> TRUE]
    ELSE IF r.res.ok
         THEN [self |-> [self EXCEPT !.buf[i] = BufferVec_rotate_left(@, r.res.val),
                                     !.idle_instant = r.s],
               w |-> r.w, res |-> Err(IOError_WouldBlock), go |-> FALSE]
         ELSE [self |-> [self EXCEPT !.idle_instant = r.s],
               w |-> r.w, res |-> Err(r.res.err), go |-> FALSE]

\* the for loop of flush_buffer over the segments, from segment i on
RECURSIVE flush_loop(_, _, _, _)
RECURSIVE flush_next(_, _, _)
flush_loop(self, w, i, now) ==
    IF i > Len(self.buf)
    THEN [self |-> self, w |-> w, res |-> Ok(0)]
    ELSE flush_next(flush_segment(self, i,
                        raw_write(w, BufferVec_read(self.buf[i]), self.idle_instant, now)),
                    i, now)

\* continue with the next segment, or leave the loop (break)
flush_next(o, i, now) ==
    IF o.go THEN flush_loop(o.self, o.w, i + 1, now)
    ELSE [self |-> o.self, w |-> o.w, res |-> o.res]

\* "compact the buffer": drop the empty segments at the head
RECURSIVE compact(_)
compact(segs) ==
    IF segs # <<>> /\ BufferVec_len(Head(segs)) = 0 THEN compact(Tail(segs)) ELSE segs

\* the compaction loop applied to the outcome f of the for loop
flush_compact(f) == [f EXCEPT !.self.buf = compact(@)]

\* (variant: the queue is not compacted)
flush_buffer_no_compact(self, w, now) == flush_loop(self, w, 1, now)

flush_buffer(self, w, now) == flush_compact(flush_loop(self, w, 1, now))

copy_to_buffer(self, data) ==
    IF Len(data) = 0 THEN self
    ELSE IF self.buf # <<>>
            /\ Len(BufferVec_write(self.buf[Len(self.buf)])) > Len(data)
         THEN [self EXCEPT !.buf[Len(self.buf)] = BufferVec_copy_from(@, data).buf]
         ELSE [self EXCEPT !.buf =
                  Append(@, BufferVec_from_slice(data, Max(self.cap, Len(data))))]

\* write: the flush of a non-empty backlog
write_flush(self, w, now) ==
    IF buffered(self) > 0 THEN flush_buffer(self, w, now)
    ELSE [self |-> self, w |-> w, res |-> Ok(0)]

\* write: `raw_write(..)?` returned r, then copy_to_buffer
write_raw(self, r, data) ==
    IF ~r.res.ok
    THEN [self |-> [self EXCEPT !.idle_instant = r.s], w |-> r.w, res |-> Err(r.res.err)]
    ELSE [self |-> copy_to_buffer([self EXCEPT !.idle_instant = r.s], Drop(data, r.res.val)),
          w |-> r.w, res |-> Ok(0)]

\* (variant: the data is buffered before a failure of the backlog flush is
\* propagated)
write_flushed_retaining(f, data, now) ==
    IF ~f.res.ok THEN [f EXCEPT !.self = copy_to_buffer(@, data)]
    ELSE write_raw(f.self, raw_write(f.w, data, f.self.idle_instant, now), data)

\* write: `flush_buffer(..)?` returned f
write_flushed(f, data, now) ==
    IF ~f.res.ok THEN f
    ELSE write_raw(f.self, raw_write(f.w, data, f.self.idle_instant, now), data)

\* must_write: the inner match, on the result r of raw_write
must_write_raw(self, r, data) ==
    IF r.res.ok
    THEN [self |-> copy_to_buffer([self EXCEPT !.idle_instant = r.s], Drop(data, r.res.val)),
          w |-> r.w, res |-> Ok(0)]
    ELSE IF r.res.err = IOError_WouldBlock
         THEN [self |-> copy_to_buffer([self EXCEPT !.idle_instant = r.s], data),
               w |-> r.w, res |-> Ok(0)]
         ELSE [self |-> [self EXCEPT !.idle_instant = r.s], w |-> r.w,
               res |-> Err(r.res.err)]

\* must_write: the outer match, on the result f of flush_buffer
must_write_flushed(f, data, now) ==
    IF f.res.ok
    THEN must_write_raw(f.self, raw_write(f.w, data, f.self.idle_instant, now), data)
    ELSE IF f.res.err = IOError_WouldBlock
         THEN [self |-> copy_to_buffer(f.self, data), w |-> f.w, res |-> Ok(0)]
         ELSE [self |-> f.self, w |-> f.w, res |-> Err(f.res.err)]

\* (variant: the result of the backlog flush is propagated with `?`, as write does)
must_write_propagating(self, w, data, now) ==
    write_flushed(flush_buffer(self, w, now), data, now)

must_write(self, w, data, now) ==
    must_write_flushed(flush_buffer(self, w, now), data, now)

write(self, w, data, now) ==
    write_flushed(write_flush(self, w, now), data, now)


\* ---------------------------------------------------------------- RingVec
\* Option<T>: None, or Some(item) for an item 1, 2, 3, ...
None == 0

\* a call that panicked
Panic == -1

\* struct RingVec { inner: Vec<Option<T>>, start: usize, end: usize }
RingVec_new(n) == [inner |-> [i \in 1..n |-> None], start |-> 0, end |-> 0]

\* the slot inner[i], i counted from 0
Slot(self, i) == self.inner[i + 1]

RingVec_push(self, item) ==
    LET len  == Len(self.inner)
        e    == (self.end + 1) % len
    IN  [inner |-> [self.inner EXCEPT ![(self.end % len) + 1] = item],
         start |-> IF self.start = e THEN self.start + 1 ELSE self.start,
         end   |-> e]

\* 2^k modulo n
RECURSIVE Pow2Mod(_, _)
Pow2Mod(k, n) == IF k = 0 THEN 1 % n ELSE (2 * Pow2Mod(k - 1, n)) % n

\* get(idx) in a build that checks arithmetic overflow (debug): the
\* subtraction end - start panics when end < start
RingVec_get_checked(self, idx) ==
    IF self.end < self.start THEN Panic
    ELSE IF idx >= self.end - self.start THEN None
         ELSE Slot(self, (idx + (self.end - self.start)) % Len(self.inner))

\* get(idx) in a build with wrapping arithmetic (release): for end < start,
\* len is 2^64 + end - start, which no idx of the model reaches, and
\* idx + len wraps around 2^64 exactly when idx + end - start >= 0
RingVec_get_wrapping(self, idx) ==
    LET n == Len(self.inner)
        d == self.end - self.start
    IN  IF d >= 0
        THEN IF idx >= d THEN None ELSE Slot(self, (idx + d) % n)
        ELSE IF idx + d >= 0
             THEN Slot(self, (idx + d) % n)
             ELSE Slot(self, (Pow2Mod(UsizeBits, n) + idx + d + n * (self.start + 1)) % n)

RingVec_get(self, idx, overflow_checks) ==
    IF overflow_checks THEN RingVec_get_checked(self, idx)
    ELSE RingVec_get_wrapping(self, idx)

\* ------------------------------------------------------------------ state
VARIABLES
    cap,           \* WriteBuffer.cap
    buf,           \* WriteBuffer.buf, the backlog: a sequence of BufferVec
    idle_instant,  \* WriteBuffer.idle_instant
    sent,          \* the bytes the transport has received, in order
    clock,         \* the time, advanced by one at every call
    nbytes,        \* number of bytes submitted by write / must_write so far
    last,          \* the last call: what was called, what the transport did, the result
    inner,         \* RingVec.inner: a slot holds an item (1, 2, ...) or None
    start,         \* RingVec.start
    end,           \* RingVec.end
    npushed,       \* number of items pushed to the RingVec; the k-th item is k
    got,           \* the last get since the last push: its index and what it returned
    expand,        \* an ExpandVec
    dest,          \* the Vec that move_to of the ExpandVec appends to
    nitems,        \* number of elements pushed to the ExpandVec; the k-th is k
    ev_last,       \* the last ExpandVec call: op, and the number of chunks held before it
    bv,            \* a BufferVec
    bv_last,       \* the last BufferVec call: op, arguments, what it returned
    pc,            \* where the call in progress stands: "idle" between calls
    frame          \* the locals of the call in progress

wbVars == <<cap, buf, idle_instant, sent, clock, nbytes, last>>

ringVars == <<inner, start, end, npushed, got>>

stepVars == <<pc, frame>>

expandVars == <<expand, dest, nitems, ev_last>>

bufVars == <<bv, bv_last>>

vars == <<wbVars, ringVars, stepVars, expandVars, bufVars>>

Self == [cap |-> cap, buf |-> buf, idle_instant |-> idle_instant]

\* the backlog contents: segments head to tail, each segment's filled prefix
RECURSIVE Flatten(_)
Flatten(segs) ==
    IF segs = <<>> THEN <<>> ELSE BufferVec_read(Head(segs)) \o Flatten(Tail(segs))

Backlog == Flatten(buf)

Buffered == buffered(Self)

\* the bytes from+1 .. to in submission order
Bytes(from, to) == [i \in 1..(to - from) |-> from + i]

Submitted == Bytes(0, nbytes)

\* the transports a call may meet
Writers ==
    {Transport(room, chunk, err, sent) :
        room \in 0..MaxRoom, chunk \in 1..MaxChunk, err \in ErrorKinds}

\* the transports whose writes accept a non-empty prefix or report would-block
BlockingWriters ==
    {Transport(room, chunk, "WouldBlock", sent) :
        room \in 0..MaxRoom, chunk \in 1..MaxChunk}

\* the transports that never fail: room for all the bytes a call can offer
AcceptingWriters ==
    {Transport(Buffered + MaxData, chunk, "WouldBlock", sent) : chunk \in 1..MaxChunk}

NoCall == [op |-> "new", res |-> Ok(0), dlen |-> 0, accepted |-> 0, raised |-> "None"]

\* no RingVec is in use
NoRing ==
    /\ inner = <<>> /\ start = 0 /\ end = 0 /\ npushed = 0
    /\ got = [idx |-> 0, res |-> None, valid |-> FALSE]

\* the result of w.write(&buf): Ok(n) or Err(kind)
NoResult == [ok |-> TRUE, n |-> 0, kind |-> "None"]

\* the locals of a call: the operation and its data; the call of raw_write
\* in progress (phase: "flush" for the one of flush_buffer's segment i,
\* "data" for the one on the caller's data) with its buf, written and result;
\* what the transport accepted and raised during the call
NoFrame ==
    [op |-> "new", data |-> <<>>, phase |-> "none", i |-> 0, b |-> <<>>,
     written |-> 0, result |-> NoResult, accepted |-> 0, raised |-> "None"]

\* no call is in progress
NoStep == pc = "idle" /\ frame = NoFrame

\* no ExpandVec is in use
NoExpand ==
    /\ expand = ExpandVec_new /\ dest = <<>> /\ nitems = 0
    /\ ev_last = [op |-> "new", n |-> 0]

\* a BufferVec call: data is the slice or Vec passed, n the numeric argument,
\* ret the count returned, ok whether it returned without error
\* size0 the size before the call, other the target of move_to after it
NoBufferCall ==
    [op |-> "none", data |-> <<>>, n |-> 0, ret |-> 0, ok |-> TRUE, size0 |-> 0,
     other |-> BufferVec_new(0)]

\* no BufferVec is in use on its own
NoBuffer == bv = BufferVec_new(0) /\ bv_last = NoBufferCall

Init ==
    /\ NoRing
    /\ NoStep
    /\ NoExpand
    /\ NoBuffer
    /\ cap \in 0..MaxCap
    /\ buf = WriteBuffer_new(cap, 0).buf
    /\ idle_instant = WriteBuffer_new(cap, 0).idle_instant
    /\ sent = <<>>
    /\ clock = 0
    /\ nbytes = 0
    /\ last = NoCall

\* the state after a call that returned r
Returned(op, data, r) ==
    /\ UNCHANGED <<ringVars, expandVars, bufVars>>
    /\ UNCHANGED stepVars
    /\ cap' = r.self.cap
    /\ buf' = r.self.buf
    /\ idle_instant' = r.self.idle_instant
    /\ sent' = r.w.out
    /\ clock' = clock + 1
    /\ nbytes' = nbytes + Len(data)
    /\ last' = [op |-> op, res |-> r.res, dlen |-> Len(data),
                accepted |-> Len(r.w.out) - Len(sent), raised |-> r.w.raised]

\* a call of must_write with a writer of W, while fewer than limit calls were made
MustWrite(W, limit) ==
    /\ clock < limit
    /\ \E n \in 0..MaxData, w \in W :
          Returned("must_write", Bytes(nbytes, nbytes + n),
                   must_write(Self, w, Bytes(nbytes, nbytes + n), clock + 1))

Write(W, limit) ==
    /\ clock < limit
    /\ \E n \in 0..MaxData, w \in W :
          Returned("write", Bytes(nbytes, nbytes + n),
                   write(Self, w, Bytes(nbytes, nbytes + n), clock + 1))

FlushBuffer(W, limit) ==
    /\ clock < limit
    /\ \E w \in W :
          Returned("flush_buffer", <<>>, flush_buffer(Self, w, clock + 1))

\* any calls, any transport
Next ==
    \/ MustWrite(Writers, MaxCalls)
    \/ Write(Writers, MaxCalls)
    \/ FlushBuffer(Writers, MaxCalls)

Spec == Init /\ [][Next]_vars

\* must_write and flush_buffer against a transport that accepts or blocks
NextBlocking ==
    \/ MustWrite(BlockingWriters, MaxCycles)
    \/ FlushBuffer(BlockingWriters, MaxCycles)

SpecBlocking == Init /\ [][NextBlocking]_vars

\* write and must_write against a transport that never fails
NextAccepting ==
    \/ Write(AcceptingWriters, MaxCycles)
    \/ MustWrite(AcceptingWriters, MaxCycles)

SpecAccepting == Init /\ [][NextAccepting]_vars

\* ------------------------------------------- the calls, statement by statement
\* Here a call runs one statement of raw_write at a time, and the transport
\* answers each write on its own: Ok(n) with 0 <= n <= min(MaxChunk, offered),
\* or Err(kind).
Responses(b) ==
    [ok : {TRUE}, n : 0..Min(MaxChunk, Len(b)), kind : {"None"}]
        \cup [ok : {FALSE}, n : {0}, kind : ErrorKinds]

\* the writer as the results of the operations carry it
StepW == Transport(0, MaxChunk, "None", sent)

\* self becomes s
Keep(s) == cap' = s.cap /\ buf' = s.buf /\ idle_instant' = s.idle_instant

\* the call returns x.res
Return(x) ==
    /\ Keep(x.self)
    /\ pc' = "idle"
    /\ frame' = NoFrame
    /\ last' = [op |-> frame.op, res |-> x.res, dlen |-> Len(frame.data),
                accepted |-> frame.accepted, raised |-> frame.raised]
    /\ UNCHANGED <<sent, clock, nbytes>>

\* write, must_write: raw_write(writer, data, ..) is entered
StartData(s) ==
    /\ Keep(s)
    /\ pc' = "while"
    /\ frame' = [frame EXCEPT !.phase = "data", !.b = frame.data, !.written = 0,
                              !.result = NoResult]
    /\ UNCHANGED <<sent, clock, nbytes, last>>

\* the for loop of flush_buffer is left with f.res: the buffer is compacted,
\* flush_buffer returns, and its caller goes on
Flushed(f) ==
    IF frame.op = "flush_buffer" \/ (frame.op = "write" /\ ~f.res.ok)
    THEN Return(flush_compact(f))
    ELSE IF f.res.ok
         THEN StartData(flush_compact(f).self)
         ELSE Return(must_write_flushed(flush_compact(f), frame.data, clock))

\* raw_write returns r
RawReturned(r) ==
    IF frame.phase = "flush"
    THEN IF flush_segment(Self, frame.i, r).go
         THEN /\ Keep(flush_segment(Self, frame.i, r).self)
              /\ pc' = "for"
              /\ frame' = [frame EXCEPT !.i = @ + 1, !.b = <<>>, !.written = 0,
                                        !.result = NoResult]
              /\ UNCHANGED <<sent, clock, nbytes, last>>
         ELSE Flushed([self |-> flush_segment(Self, frame.i, r).self, w |-> StepW,
                       res |-> flush_segment(Self, frame.i, r).res])
    ELSE IF frame.op = "write"
         THEN Return(write_raw(Self, r, frame.data))
         ELSE Return(must_write_raw(Self, r, frame.data))

\* a call is made
StepCall ==
    /\ pc = "idle"
    /\ clock < MaxStepCalls
    /\ \E op \in {"must_write", "write", "flush_buffer"}, n \in 0..MaxData :
          /\ (op = "flush_buffer") => (n = 0)
          /\ clock' = clock + 1
          /\ nbytes' = nbytes + n
          /\ IF op = "write" /\ buffered(Self) = 0
             THEN /\ pc' = "while"
                  /\ frame' = [NoFrame EXCEPT !.op = op, !.phase = "data",
                                              !.data = Bytes(nbytes, nbytes + n),
                                              !.b = Bytes(nbytes, nbytes + n)]
             ELSE /\ pc' = "for"
                  /\ frame' = [NoFrame EXCEPT !.op = op, !.phase = "flush", !.i = 1,
                                              !.data = Bytes(nbytes, nbytes + n)]
    /\ UNCHANGED <<cap, buf, idle_instant, sent, last>>
    /\ UNCHANGED <<ringVars, expandVars, bufVars>>

\* flush_buffer: `for buf in &mut self.buf`
StepFor ==
    /\ pc = "for"
    /\ IF frame.i > Len(buf)
       THEN Flushed([self |-> Self, w |-> StepW, res |-> Ok(0)])
       ELSE /\ pc' = "while"
            /\ frame' = [frame EXCEPT !.b = BufferVec_read(buf[frame.i]),
                                      !.written = 0]
            /\ UNCHANGED <<cap, buf, idle_instant, sent, clock, nbytes, last>>
    /\ UNCHANGED <<ringVars, expandVars, bufVars>>

\* raw_write: `while !buf.is_empty() { let result = w.write(&buf);`, and
\* `*s = Instant::now(); Ok(written)` when the loop is over
StepWhile ==
    /\ pc = "while"
    /\ IF frame.b = <<>>
       THEN RawReturned([w |-> StepW, res |-> Ok(frame.written), s |-> clock])
       ELSE \E resp \in Responses(frame.b) :
              /\ pc' = "match"
              /\ frame' = [frame EXCEPT !.result = resp, !.accepted = @ + resp.n,
                                        !.raised = IF resp.ok THEN @ ELSE resp.kind]
              /\ sent' = sent \o Take(frame.b, resp.n)
              /\ UNCHANGED <<cap, buf, idle_instant, clock, nbytes, last>>
    /\ UNCHANGED <<ringVars, expandVars, bufVars>>

\* raw_write: `match result { .. }`
StepMatch ==
    /\ pc = "match"
    /\ IF frame.result.ok
       THEN /\ pc' = "while"
            /\ frame' = [frame EXCEPT !.written = @ + frame.result.n,
                                      !.b = Drop(@, frame.result.n),
                                      !.result = NoResult]
            /\ UNCHANGED <<cap, buf, idle_instant, sent, clock, nbytes, last>>
       ELSE IF frame.result.kind \in {"WouldBlock", "NotConnected"}
            THEN IF frame.written > 0
                 THEN RawReturned([w |-> StepW, res |-> Ok(frame.written), s |-> clock])
                 ELSE RawReturned([w |-> StepW, res |-> Err(IOError_WouldBlock),
                                   s |-> idle_instant])
            ELSE RawReturned([w |-> StepW, res |-> Err(IOError_from(frame.result.kind)),
                              s |-> idle_instant])
    /\ UNCHANGED <<ringVars, expandVars, bufVars>>

\* the statements of the call in progress
StepRun == StepFor \/ StepWhile \/ StepMatch

StepNext == StepCall \/ StepFor \/ StepWhile \/ StepMatch

\* a call in progress keeps running: the thread that made it is not stopped
StepFairSpec == Init /\ [][StepNext]_vars /\ WF_vars(StepRun)

\* ----------------------------------------------------- ExpandVec actions
\* no WriteBuffer call is made
NoWriteBuffer ==
    /\ cap = 0
    /\ buf = WriteBuffer_new(cap, 0).buf
    /\ idle_instant = WriteBuffer_new(cap, 0).idle_instant
    /\ sent = <<>> /\ clock = 0 /\ nbytes = 0 /\ last = NoCall

\* ExpandVec::new(), and a destination Vec that may hold elements already
ExpandInit ==
    /\ NoWriteBuffer /\ NoRing /\ NoStep /\ NoBuffer
    /\ expand = ExpandVec_new
    /\ dest \in {<<>>, <<0>>}
    /\ nitems = 0
    /\ ev_last = [op |-> "new", n |-> 0]

\* push(data) with the next n elements
EvPush ==
    /\ Len(expand.raw) < MaxChunks
    /\ \E n \in 0..MaxSlice :
          /\ nitems + n <= MaxItems
          /\ expand' = ExpandVec_push(expand, Bytes(nitems, nitems + n))
          /\ nitems' = nitems + n
    /\ ev_last' = [op |-> "push", n |-> Len(expand.raw)]
    /\ UNCHANGED dest
    /\ UNCHANGED <<wbVars, ringVars, stepVars, bufVars>>

EvPop ==
    /\ expand' = ExpandVec_pop(expand).self
    /\ ev_last' = [op |-> "pop", n |-> Len(expand.raw)]
    /\ UNCHANGED <<dest, nitems>>
    /\ UNCHANGED <<wbVars, ringVars, stepVars, bufVars>>

EvMoveTo ==
    /\ expand' = ExpandVec_move_to(expand, dest).self
    /\ dest' = ExpandVec_move_to(expand, dest).data
    /\ ev_last' = [op |-> "move_to", n |-> Len(expand.raw)]
    /\ UNCHANGED nitems
    /\ UNCHANGED <<wbVars, ringVars, stepVars, bufVars>>

ExpandNext == EvPush \/ EvPop \/ EvMoveTo

ExpandSpec == ExpandInit /\ [][ExpandNext]_vars

\* ----------------------------------------------------- BufferVec actions
\* the slices and Vecs passed to a BufferVec
Slices == {Bytes(k, k + n) : k \in 0..1, n \in 0..MaxSlice}

\* the readers passed to fill_with and fill_all_with
Readers ==
    {Reader(Bytes(0, n), chunk, err) :
        n \in 0..MaxRead, chunk \in 1..MaxRead, err \in {"None", "WouldBlock"}}

\* the state after a BufferVec call
BufReturned(op, data, n, ret, ok, b, other) ==
    /\ bv' = b
    /\ bv_last' = [op |-> op, data |-> data, n |-> n, ret |-> ret, ok |-> ok,
                   size0 |-> bv.size, other |-> other]
    /\ UNCHANGED <<wbVars, ringVars, stepVars, expandVars>>

BufferInit ==
    /\ NoWriteBuffer /\ NoRing /\ NoStep /\ NoExpand
    /\ \E c \in 0..MaxBufCap :
          /\ bv = BufferVec_new(c)
          /\ bv_last = [NoBufferCall EXCEPT !.op = "new", !.n = c]

BvFromSlice ==
    \E slice \in Slices, c \in 0..MaxBufCap :
        BufReturned("from_slice", slice, c, 0, TRUE, BufferVec_from_slice(slice, c),
                    BufferVec_new(0))

BvFromVec ==
    \E vec \in Slices, c \in 0..MaxBufCap :
        BufReturned("from_vec", vec, c, 0, TRUE, BufferVec_from_vec(vec, c),
                    BufferVec_new(0))

BvCopyFrom ==
    \E data \in Slices :
        BufReturned("copy_from", data, 0, BufferVec_copy_from(bv, data).n, TRUE,
                    BufferVec_copy_from(bv, data).buf, BufferVec_new(0))

BvClear ==
    BufReturned("clear", <<>>, 0, 0, TRUE, BufferVec_clear(bv), BufferVec_new(0))

BvResizeCap ==
    \E n \in 0..MaxBufCap :
        BufReturned("resize_cap", <<>>, n, 0, TRUE, BufferVec_resize_cap(bv, n),
                    BufferVec_new(0))

\* move_to(target), target a BufferVec that is empty or holds one byte
BvMoveTo ==
    \E c \in 0..MaxBufCap, slice \in {<<>>, <<0>>} :
        BufReturned("move_to", <<>>, c, 0, TRUE,
                    BufferVec_move_to(bv, BufferVec_from_slice(slice, c)).self,
                    BufferVec_move_to(bv, BufferVec_from_slice(slice, c)).target)

BvFillWith ==
    \E r \in Readers :
        BufReturned("fill_with", r.data, r.chunk, BufferVec_fill_with(bv, r).n,
                    BufferVec_fill_with(bv, r).ok, BufferVec_fill_with(bv, r).buf,
                    BufferVec_new(0))

BvFillAllWith ==
    \E r \in Readers :
        BufReturned("fill_all_with", r.data, r.chunk, 0,
                    BufferVec_fill_all_with(bv, r).ok, BufferVec_fill_all_with(bv, r).buf,
                    BufferVec_new(0))

\* advance(n), for n within the unfilled region
BvAdvance ==
    \E n \in 0..Len(BufferVec_write(bv)) :
        BufReturned("advance", <<>>, n, 0, TRUE, BufferVec_advance(bv, n), BufferVec_new(0))

\* rotate_left(n), for n within the filled prefix
BvRotateLeft ==
    \E n \in 0..BufferVec_len(bv) :
        BufReturned("rotate_left", <<>>, n, 0, TRUE, BufferVec_rotate_left(bv, n),
                    BufferVec_new(0))

BufferNext ==
    \/ BvFromSlice \/ BvFromVec \/ BvCopyFrom \/ BvClear \/ BvResizeCap \/ BvMoveTo
    \/ BvFillWith \/ BvFillAllWith \/ BvAdvance \/ BvRotateLeft

BufferSpec == BufferInit /\ [][BufferNext]_vars

\* ------------------------------------------------------- RingVec actions
Ring == [inner |-> inner, start |-> start, end |-> end]

\* no WriteBuffer call is made on the behaviours of the RingVec
RingInit ==
    /\ NoStep
    /\ NoExpand
    /\ NoBuffer
    /\ cap = 0
    /\ buf = WriteBuffer_new(cap, 0).buf
    /\ idle_instant = WriteBuffer_new(cap, 0).idle_instant
    /\ sent = <<>> /\ clock = 0 /\ nbytes = 0 /\ last = NoCall
    /\ \E n \in 1..MaxRing :
          /\ inner = RingVec_new(n).inner
          /\ start = RingVec_new(n).start
          /\ end = RingVec_new(n).end
    /\ npushed = 0
    /\ got = [idx |-> 0, res |-> None, valid |-> FALSE]

\* push(item) with the next item
Push ==
    /\ npushed < MaxPush
    /\ inner' = RingVec_push(Ring, npushed + 1).inner
    /\ start' = RingVec_push(Ring, npushed + 1).start
    /\ end' = RingVec_push(Ring, npushed + 1).end
    /\ npushed' = npushed + 1
    /\ got' = [idx |-> 0, res |-> None, valid |-> FALSE]
    /\ UNCHANGED <<wbVars, stepVars, expandVars, bufVars>>

\* get(idx), in a build with or without overflow checks
Get ==
    /\ \E idx \in 0..MaxIdx, overflow_checks \in BOOLEAN :
          got' = [idx |-> idx, res |-> RingVec_get(Ring, idx, overflow_checks),
                  valid |-> TRUE]
    /\ UNCHANGED <<inner, start, end, npushed>>
    /\ UNCHANGED <<wbVars, stepVars, expandVars, bufVars>>

RingNext == Push \/ Get

RingSpec == RingInit /\ [][RingNext]_vars

TypeOK ==
    /\ cap \in 0..MaxCap
    /\ clock \in 0..Max(MaxCalls, MaxCycles)
    /\ \A i \in 1..Len(buf) : buf[i].size <= Len(buf[i].raw)

\* ----------------------------------------------------------------- claims
\* the data of the call that leads from this state to the next one
DataOfCall == Bytes(nbytes, nbytes')

\* no byte of the data of the call is in s
NoDataIn(s) == \A i \in 1..Len(s) : s[i] <= nbytes

\* C1: over must_write and flush_buffer calls against a transport that only
\* accepts non-empty prefixes or reports would-block, the bytes the transport
\* received followed by the backlog contents are exactly the submitted bytes
\* in submission order.
C1_NoLossNoDupInOrder == sent \o Backlog = Submitted

C1_Witness ==
    /\ clock >= 3
    /\ last.op = "flush_buffer" /\ last.accepted > 0 /\ ~last.res.ok
    /\ sent # <<>> /\ Len(buf) >= 2

\* C2: a must_write on an empty backlog of which the transport accepts a
\* proper non-empty prefix and then reports would-block returns success and
\* leaves exactly the unaccepted suffix in the backlog; a flush_buffer during
\* which the transport accepts everything returns success, leaves
\* buffered() = 0 and delivers the backlog in order.
C2_PartialThenFlush ==
    [][ /\ (/\ last'.op = "must_write" /\ Buffered = 0
            /\ last'.raised = "WouldBlock"
            /\ last'.accepted > 0 /\ last'.accepted < last'.dlen)
           => /\ last'.res.ok
              /\ Buffered' = last'.dlen - last'.accepted
              /\ Backlog' = Drop(DataOfCall, last'.accepted)
              /\ sent' = sent \o Take(DataOfCall, last'.accepted)
        /\ (last'.op = "flush_buffer" /\ last'.raised = "None")
           => /\ last'.res.ok
              /\ Buffered' = 0
              /\ sent' = sent \o Backlog ]_vars

\* the second call, a flush_buffer, has delivered the one byte that the first
\* call, a must_write of two bytes, had to retain
C2_Witness ==
    /\ clock = 2 /\ nbytes = 2
    /\ last.op = "flush_buffer" /\ last.raised = "None" /\ last.accepted = 1
    /\ last.res.ok /\ Buffered = 0 /\ sent = Submitted

\* C3: against a transport that never reports would-block or another error,
\* every write and must_write call returns success, the transport has
\* received exactly the submitted bytes in order and buffered() = 0.
C3_NeverBlockedAllDelivered == last.res.ok /\ Buffered = 0 /\ sent = Submitted

C3_Witness ==
    /\ clock >= 3
    /\ last.op = "write" /\ last.dlen = 2 /\ last.accepted = 2
    /\ nbytes >= 4 /\ sent = Submitted

\* C4: must_write never returns WouldBlock; when the transport failed with
\* would-block only (or not at all) it returns success and the backlog is the
\* old backlog followed by the data, less what the transport accepted; it
\* returns an error only after a failure that is not a would-block, and then
\* the backlog holds no byte of the data.
C4_MustWriteNeverWouldBlock ==
    [][ last'.op = "must_write" =>
          /\ last'.res.err # IOError_WouldBlock
          /\ last'.raised \in {"None", "WouldBlock"}
                => /\ last'.res.ok
                   /\ Backlog' = Drop(Backlog \o DataOfCall, last'.accepted)
          /\ ~last'.res.ok
                => /\ last'.raised \notin {"None", "WouldBlock"}
                   /\ NoDataIn(Backlog') ]_vars

C4_Witness ==
    /\ last.op = "must_write" /\ last.raised = "WouldBlock" /\ last.res.ok
    /\ last.accepted = 0 /\ last.dlen > 0 /\ Buffered > last.dlen
    /\ Backlog = Submitted

\* C5: when write returns an error the backlog holds no byte of its data, and
\* when that error is WouldBlock the transport has accepted no byte of its
\* data either.
C5_WriteDropsOnWouldBlock ==
    [][ (last'.op = "write" /\ ~last'.res.ok) =>
          /\ NoDataIn(Backlog')
          /\ last'.res.err = IOError_WouldBlock => NoDataIn(sent') ]_vars

C5_Witness ==
    /\ last.op = "write" /\ last.res.err = IOError_WouldBlock
    /\ last.dlen > 0 /\ Buffered > 0
    /\ \A i \in 1..Len(sent \o Backlog) : (sent \o Backlog)[i] <= nbytes - last.dlen

C7_Original ==
    (last.op \in {"flush_buffer", "write"} /\ last.raised # "None" /\ last.accepted = 0)
        => (~last.res.ok /\ last.res.err = IOError_from(last.raised))

\* C7 (amended): when the first transport write of a flush_buffer or write
\* call fails with kind k, the call reports what the IOError classification
\* assigns to k, except for not-connected, which raw_write itself reports
\* as WouldBlock.
C7_ClassifiedExceptNotConnected ==
    (last.op \in {"flush_buffer", "write"} /\ last.raised # "None" /\ last.accepted = 0)
        => /\ ~last.res.ok
           /\ last.res.err = IF last.raised = "NotConnected" THEN IOError_WouldBlock
                             ELSE IOError_from(last.raised)
           /\ last.raised = "WouldBlock" => last.res.err = IOError_WouldBlock
           /\ last.raised \in {"UnexpectedEof", "BrokenPipe", "ConnectionAborted"}
                 => last.res.err = IOError_EOF(FALSE)
           /\ last.raised = "PermissionDenied"
                 => last.res.err = IOError_Other("PermissionDenied")

C7_Witness ==
    /\ last.op = "write" /\ last.raised = "BrokenPipe" /\ last.accepted = 0
    /\ last.res.err = IOError_EOF(FALSE)

\* C9 as stated: a call refreshes the last-progress timestamp if and only if
\* the transport accepted at least one byte during the call.
C9_RefreshIffAccepted ==
    [][ (idle_instant' # idle_instant) <=> (last'.accepted > 0) ]_vars

\* C8 as stated: every call of must_write, write and flush_buffer returns, with
\* every transport whose write returns an error or a count between 0 and the
\* number of bytes offered; no call waits for the transport to become ready.
C8_EveryCallReturns == (pc # "idle") ~> (pc = "idle")

\* C10 as stated: in a RingVec of capacity N >= 1 to which N + k items were
\* pushed (k > 0), get(i) returns the (k + 1 + i)-th pushed item for i < N
\* (the oldest retained for i = 0, the most recent for i = N - 1) and
\* not-present for i >= N.
C10_GetAfterWrap ==
    (got.valid /\ npushed > Len(inner))
        => got.res = IF got.idx < Len(inner)
                     THEN npushed - Len(inner) + 1 + got.idx
                     ELSE None

\* C11 as stated: in a RingVec of capacity N to which m < N items were pushed,
\* get(i) returns the (i + 1)-th pushed item for i < m and not-present for
\* i >= m, without panicking, and the logical length (end - start) mod N is m.
C11_GetBeforeFull ==
    (got.valid /\ npushed < Len(inner))
        => /\ got.res # Panic
           /\ got.res = IF got.idx < npushed THEN got.idx + 1 ELSE None
           /\ (end - start) % Len(inner) = npushed

\* the sum of the lengths of the chunks
RECURSIVE SumLens(_)
SumLens(chunks) == IF chunks = <<>> THEN 0 ELSE Len(Head(chunks)) + SumLens(Tail(chunks))

\* C12 as stated: after any sequence of push, pop and move_to calls, len()
\* is the sum of the lengths of the chunks held.
C12_LenIsSumOfChunks == ExpandVec_len(expand) = SumLens(expand.raw)

\* C13: move_to appends to the destination every held chunk, in push order,
\* behind the elements the destination held; afterwards the ExpandVec holds
\* no chunk and len() = 0, so that a second move_to appends nothing.
C13_MoveToFlattens ==
    [][ ev_last'.op = "move_to" =>
          /\ Len(dest') = Len(dest) + SumLens(expand.raw)
          /\ Take(dest', Len(dest)) = dest
          /\ \A k \in 1..Len(expand.raw) : \A j \in 1..Len(expand.raw[k]) :
                dest'[Len(dest) + SumLens(SubSeq(expand.raw, 1, k - 1)) + j]
                    = expand.raw[k][j]
          /\ expand'.raw = <<>>
          /\ ExpandVec_len(expand') = 0
          /\ ev_last.op = "move_to" => dest' = dest ]_vars

C13_Witness ==
    /\ ev_last.op = "move_to" /\ ev_last.n >= 2
    /\ Len(dest) >= 4 /\ dest[1] = 0
    /\ expand.raw = <<>>

\* C14: copy_from(buf) returns k = min(cap - size, len(buf)); the filled
\* prefix becomes the old one followed by the first k bytes of buf, size
\* grows by k within the capacity, and cap is unchanged.
C14_CopyFromTruncates ==
    [][ bv_last'.op = "copy_from" =>
          /\ bv_last'.ok
          /\ bv_last'.ret = Min(BufferVec_cap(bv) - BufferVec_len(bv), Len(bv_last'.data))
          /\ BufferVec_read(bv') = BufferVec_read(bv) \o Take(bv_last'.data, bv_last'.ret)
          /\ BufferVec_len(bv') = BufferVec_len(bv) + bv_last'.ret
          /\ BufferVec_len(bv') <= BufferVec_cap(bv')
          /\ BufferVec_cap(bv') = BufferVec_cap(bv) ]_vars

C14_Witness ==
    /\ bv_last.op = "copy_from"
    /\ bv_last.ret = 1 /\ Len(bv_last.data) = 2
    /\ bv_last.size0 >= 1 /\ BufferVec_len(bv) = BufferVec_cap(bv)

\* C15: rotate_left(n) with 0 <= n <= size leaves the old filled bytes from
\* offset n on as the filled prefix, size reduced by n, cap unchanged; n = size
\* empties the buffer and n = 0 changes nothing.
C15_RotateLeftDiscards ==
    [][ bv_last'.op = "rotate_left" =>
          /\ BufferVec_len(bv') = BufferVec_len(bv) - bv_last'.n
          /\ BufferVec_read(bv') = Drop(BufferVec_read(bv), bv_last'.n)
          /\ BufferVec_cap(bv') = BufferVec_cap(bv)
          /\ bv_last'.n = BufferVec_len(bv) => BufferVec_read(bv') = <<>>
          /\ bv_last'.n = 0 => bv' = bv ]_vars

C15_Witness ==
    /\ bv_last.op = "rotate_left"
    /\ bv_last.n = 1 /\ bv_last.size0 = 2
    /\ BufferVec_read(bv) = <<2>>

\* C16 as stated: from_slice(slice, cap) and from_vec(vec, cap) construct a
\* buffer of capacity max(cap, input length) whose filled content is the
\* entire input, for every cap.
C16_ConstructorsClampUp ==
    bv_last.op \in {"from_slice", "from_vec"}
        => /\ BufferVec_cap(bv) = Max(bv_last.n, Len(bv_last.data))
           /\ BufferVec_read(bv) = bv_last.data

\* C17: 0 <= size <= cap after every call (of the BufferVec and of the target
\* of move_to), and resize_cap to a capacity below size clamps size to it.
C17_SizeWithinCap ==
    /\ 0 <= BufferVec_len(bv) /\ BufferVec_len(bv) <= BufferVec_cap(bv)
    /\ BufferVec_len(bv_last.other) <= BufferVec_cap(bv_last.other)
    /\ bv_last.op = "resize_cap"
          => /\ BufferVec_cap(bv) = bv_last.n
             /\ BufferVec_len(bv) = Min(bv_last.size0, bv_last.n)

C17_Witness ==
    /\ bv_last.op = "resize_cap"
    /\ bv_last.size0 = 2 /\ bv_last.n = 1
    /\ BufferVec_len(bv) = 1 /\ BufferVec_cap(bv) = 1

\* C18 as stated: for every transport behaviour, when flush_buffer returns
\* the backlog holds exactly the bytes of the old backlog that the transport
\* has not accepted, and no byte the transport has accepted is in the backlog.
C18_FlushLeavesUnaccepted ==
    [][ last'.op = "flush_buffer" =>
          /\ Backlog' = Drop(Backlog, last'.accepted)
          /\ \A i \in 1..Len(sent') : \A j \in 1..Len(Backlog') :
                sent'[i] # Backlog'[j] ]_vars

\* C19 as stated: in every reachable state, the initial one included, the
\* queue has no empty segment at its head.
C19_NoEmptyHead == buf # <<>> => BufferVec_len(buf[1]) > 0

\* the call op made with the writer w in this state
CallOf(op, w) ==
    IF op = "write" THEN write(Self, w, DataOfCall, clock + 1)
    ELSE must_write(Self, w, DataOfCall, clock + 1)

\* the WriteBuffer when that call enters copy_to_buffer: after its backlog flush
AtCopy(op, w) ==
    IF op = "write" THEN write_flush(Self, w, clock + 1).self
    ELSE flush_buffer(Self, w, clock + 1).self

\* the step is the call op made with the writer w, returning success
StepIsCall(op, w) ==
    /\ last'.op = op /\ last'.res.ok
    /\ CallOf(op, w).res.ok
    /\ CallOf(op, w).self.buf = buf'
    /\ CallOf(op, w).w.out = sent'

\* what C20 says of the queue before and after the remainder r is retained
RetainedInPlace(before, r, after) ==
    IF before # <<>> /\ Len(BufferVec_write(before[Len(before)])) >= Len(r)
    THEN /\ Len(after) = Len(before)
         /\ SubSeq(after, 1, Len(after) - 1) = SubSeq(before, 1, Len(before) - 1)
         /\ BufferVec_read(after[Len(after)]) = BufferVec_read(before[Len(before)]) \o r
         /\ BufferVec_cap(after[Len(after)]) = BufferVec_cap(before[Len(before)])
    ELSE /\ Len(after) = Len(before) + 1
         /\ SubSeq(after, 1, Len(before)) = before
         /\ BufferVec_read(after[Len(after)]) = r
         /\ BufferVec_cap(after[Len(after)]) = Max(cap, Len(r))

\* C20 as stated: when write or must_write retains a non-empty remainder r, r
\* is appended to the tail segment if that has room for it (free space >=
\* len(r)) and no segment is added; otherwise exactly one new tail segment of
\* capacity max(cap, len(r)) holding r is added; every segment has capacity
\* >= cap and size <= capacity.
C20_TailReusedWhenRoom ==
    [][ \A op \in {"write", "must_write"}, w \in Writers :
          (StepIsCall(op, w) /\ Len(Flatten(buf')) > Len(Flatten(AtCopy(op, w).buf)))
             => /\ RetainedInPlace(AtCopy(op, w).buf,
                                   Drop(Flatten(buf'), Len(Flatten(AtCopy(op, w).buf))),
                                   buf')
                /\ \A i \in 1..Len(buf') :
                      /\ BufferVec_cap(buf'[i]) >= cap
                      /\ BufferVec_len(buf'[i]) <= BufferVec_cap(buf'[i]) ]_vars

====
